---- MODULE Spec2Model ----
(***************************************************************************)
(* Model of winget_updater.py: the WingetUpdater window (UI thread and its *)
(* event loop), the bootstrap worker thread w7X8y9, the queued signals     *)
(* between them, and the winget QProcess with its output pipe.             *)
(*                                                                         *)
(* Text is a sequence of tokens.  A fixed message of the program is one    *)
(* token; process output and captured installer output are sequences of    *)
(* one-character tokens: "a" a letter, "w" a whitespace character (space   *)
(* or line break), "x" a byte that is not valid UTF-8, "R" U+FFFD.         *)
(***************************************************************************)
EXTENDS Integers, Sequences, FiniteSets, TLC

\* ---------------------------------------------------------------- bounds
MaxChunks == 2          \* chunks the upgrade child writes in one run
MaxChunkLen == 1        \* bytes in one chunk
MaxTotal == 3           \* largest Content-Length of the msix download
MaxBlockSize == 2       \* largest block size urlretrieve reads with
MaxCapture == 1         \* characters captured on each installer stream

\* ---------------------------------------------------------------- inputs
Systems == {"Windows", "Linux"}
Releases == {"7", "10", "11"}
AdminAnswers == {"admin", "user", "raise"}   \* IsUserAnAdmin: nonzero, zero, exception
RunasResults == {"started", "rejected"}      \* ShellExecuteW outcome
StartResults == {"started", "failed", "timeout"}  \* waitForStarted(3000)
ExitCodes == {0, 1}
ExitStatuses == {"NormalExit", "CrashExit"}
Bytes == {"a", "w", "x"}

RECURSIVE SeqsUpTo(_, _)
SeqsUpTo(S, n) ==
  IF n = 0 THEN {<<>>}
  ELSE LET shorter == SeqsUpTo(S, n - 1)
       IN shorter \cup {Append(s, c) : s \in {t \in shorter : Len(t) = n - 1}, c \in S}

Chunks == SeqsUpTo(Bytes, MaxChunkLen) \ {<<>>}
Captures == SeqsUpTo({"a", "w"}, MaxCapture)

\* ------------------------------------------------------- pure functions
\* bytes(data).decode(errors="replace")
Decode(data) == [i \in 1..Len(data) |-> IF data[i] = "x" THEN "R" ELSE data[i]]

\* str.rstrip()
RECURSIVE rstrip(_)
rstrip(s) ==
  IF s = <<>> THEN s
  ELSE IF s[Len(s)] = "w" THEN rstrip(SubSeq(s, 1, Len(s) - 1)) ELSE s

RECURSIVE lstrip(_)
lstrip(s) ==
  IF s = <<>> THEN s
  ELSE IF s[1] = "w" THEN lstrip(Tail(s)) ELSE s

\* str.strip()
strip(s) == lstrip(rstrip(s))

RECURSIVE Flatten(_)
Flatten(ss) == IF ss = <<>> THEN <<>> ELSE Head(ss) \o Flatten(Tail(ss))

\* a7B2cD3 failing open: an exception of the query counts as elevated
a7B2cD3_fail_open(answer) == answer # "user"

\* a7B2cD3: the elevation query, failing closed
a7B2cD3(answer) == answer = "admin"

\* i5J6kL7: shutil.which("winget") is not None
i5J6kL7(which) == which # "None"

\* the platform test without the release check
PlatformError_any_release(h) ==
  IF h.system # "Windows" THEN "This program runs only on Windows." ELSE ""

\* the platform test at the head of q1R2s3; "" when the host is supported
PlatformError(h) ==
  IF h.system # "Windows" THEN "This program runs only on Windows."
  ELSE IF h.release \notin {"10", "11"} THEN "Only Windows 10 and Windows 11 are supported."
  ELSE ""

\* a percentage counting down what is left
Percent_remaining(block_num, block_size, total_size) ==
  100 - (block_num * block_size * 100) \div total_size

\* reporthook's percentage: int(block_num * block_size * 100 / total_size)
Percent(block_num, block_size, total_size) ==
  (block_num * block_size * 100) \div total_size

\* the success test looking at the exit code only
UpgradeOk_code_only(exit_code, exit_status) == exit_code = 0

\* the success test of i9J0k1
UpgradeOk(exit_code, exit_status) == exit_status = "NormalExit" /\ exit_code = 0

\* ---------------------------------------------------------------- state
VARIABLES
  host,          \* [system, release] as platform.system()/release() report
  app,           \* "loop": app.exec_() is running; "exited": the process ended
  exitCode,      \* process exit code, -1 while running
  loopExit,      \* return value event loop was asked to exit with, -1 if none
  quitBy,        \* who asked the loop to exit: "none", "o5P6q7", "close"
  timers,        \* pending QTimer.singleShot callbacks
  status_label,  \* [text, code]
  log_view,      \* sequence of [src, text], one per append
  progress,      \* [visible, maximum, value]
  criticalBoxes, \* messages shown with QMessageBox.critical
  warningBoxes,  \* exit codes shown with QMessageBox.warning
  worker,        \* position of the bootstrap thread
  dl,            \* [total, bs, blocks, block_num] of the running download, NoDl otherwise
  sigQ,          \* signals of WorkerSignals queued to the UI thread
  proc,          \* winget QProcess: "NotRunning","Starting","Running","Exited"
  pipe,          \* bytes the child wrote that are not read yet
  emitted,       \* history: the bytes the child wrote, in order
  nChunks,       \* history: number of chunks the child wrote
  procExit,      \* [code, status] QProcess reported with finished
  calls,         \* history: number of calls of each external operation
  env            \* history: what the external operations answered, and counts
                 \* of what the worker and its slots did

vars == <<host, app, exitCode, loopExit, quitBy, timers, status_label, log_view,
          progress, criticalBoxes, warningBoxes, worker, dl, sigQ, proc, pipe,
          emitted, nChunks, procExit, calls, env>>

uiVars == <<status_label, log_view, progress, criticalBoxes, warningBoxes>>
workerVars == <<worker, dl, sigQ>>
procVars == <<proc, pipe, emitted, nChunks, procExit>>
exitVars == <<app, exitCode, loopExit, quitBy>>

Line(src, text) == [src |-> src, text |-> text]
Status(text, code) == [text |-> text, code |-> code]
NoDl == [total |-> -1, bs |-> 1, blocks |-> 0, block_num |-> 0]

\* __init__ has run, the window is shown and app.exec_() has been entered
Init ==
  /\ host \in [system : Systems, release : Releases]
  /\ app = "loop"
  /\ exitCode = -1
  /\ loopExit = -1
  /\ quitBy = "none"
  /\ timers = {"q1R2s3"}
  /\ status_label = Status("Initializing...", -1)
  /\ log_view = <<>>
  /\ progress = [visible |-> FALSE, maximum |-> 0, value |-> -1]
  /\ criticalBoxes = <<>>
  /\ warningBoxes = <<>>
  /\ worker = "idle"
  /\ dl = NoDl
  /\ sigQ = <<>>
  /\ proc = "NotRunning"
  /\ pipe = <<>>
  /\ emitted = <<>>
  /\ nChunks = 0
  /\ procExit = [code |-> -1, status |-> "none"]
  /\ calls = [isAdmin |-> 0, runas |-> 0, which |-> 0, download |-> 0,
              installer |-> 0, start |-> 0]
  /\ env = [admin |-> "unasked", runas |-> "none", tool |-> "unprobed",
            download |-> "none", installer |-> "none", rc |-> -1,
            launch |-> "none", finished |-> FALSE,
            stderr |-> <<>>, stdout |-> <<>>,       \* captures of a failed installer
            progEmitted |-> <<>>, progHandled |-> <<>>,  \* percentages of the download under way
            nFinished |-> 0, nZ0 |-> 0, nSched |-> 0,    \* finished emitted, z0A1b2 run, c3D4e5 armed
            slotCtx |-> {}]                              \* threads the worker-signal slots ran in

\* the event loop is running and has not been asked to exit
Dispatching == app = "loop" /\ loopExit = -1

\* ------------------------------------------------------------ presenter
\* QProgressBar.setMaximum: a value outside the new range resets the bar
setMaximum(p, m) == [p EXCEPT !.maximum = m, !.value = IF p.value > m THEN -1 ELSE p.value]
setVisible(p, v) == [p EXCEPT !.visible = v]
\* u1V2w3
u1V2w3(p, enabled) == setVisible(p, ~enabled)
\* QProgressBar.setValue ignores a value outside minimum..maximum
setValue(p, v) == [p EXCEPT !.value = IF v >= 0 /\ v <= p.maximum THEN v ELSE p.value]

\* o5P6q7 without the QApplication.quit()
o5P6q7_no_quit(lg, msg) ==
  /\ log_view' = Append(lg, Line("o5P6q7", <<"<b>Fatal error:</b> ">> \o msg))
  /\ criticalBoxes' = Append(criticalBoxes, msg)
  /\ UNCHANGED <<loopExit, quitBy>>

\* o5P6q7 on a log lg: fatal line, critical box, QApplication.quit()
o5P6q7(lg, msg) ==
  /\ log_view' = Append(lg, Line("o5P6q7", <<"<b>Fatal error:</b> ">> \o msg))
  /\ criticalBoxes' = Append(criticalBoxes, msg)
  /\ loopExit' = 0
  /\ quitBy' = "o5P6q7"

\* t4U5v6: show the indeterminate bar and start the worker thread
t4U5v6 ==
  /\ progress' = setVisible(setMaximum(progress, 0), TRUE)
  /\ worker' = "start"

\* the probe branch without its else: the bootstrap starts in both cases
q1R2s3_probe_no_else(lg, c, e, which) ==
  /\ calls' = [c EXCEPT !.which = @ + 1]
  /\ env' = [e EXCEPT !.tool = IF i5J6kL7(which) THEN "present" ELSE "absent",
                      !.nSched = IF i5J6kL7(which) THEN @ + 1 ELSE @]
  /\ log_view' = lg \o <<Line("l2M3n4", <<"Checking for winget...">>),
                         Line("l2M3n4", <<"winget NOT found - starting download and installation.">>)>>
  /\ timers' = IF i5J6kL7(which) THEN (timers \ {"q1R2s3"}) \cup {"c3D4e5"}
               ELSE timers \ {"q1R2s3"}
  /\ t4U5v6

\* lines 160-166 of q1R2s3: probe and branch; lg, c, e are the log, the call
\* counts and the answers as the first half of q1R2s3 left them
q1R2s3_probe(lg, c, e, which) ==
  /\ calls' = [c EXCEPT !.which = @ + 1]
  /\ IF i5J6kL7(which)
     THEN /\ env' = [e EXCEPT !.tool = "present", !.nSched = @ + 1]
          /\ log_view' = lg \o <<Line("l2M3n4", <<"Checking for winget...">>),
                                 Line("l2M3n4", <<"winget already installed, proceeding to update.">>)>>
          /\ timers' = (timers \ {"q1R2s3"}) \cup {"c3D4e5"}
          /\ UNCHANGED <<progress, worker>>
     ELSE /\ env' = [e EXCEPT !.tool = "absent"]
          /\ log_view' = lg \o <<Line("l2M3n4", <<"Checking for winget...">>),
                                 Line("l2M3n4", <<"winget NOT found - starting download and installation.">>)>>
          /\ timers' = timers \ {"q1R2s3"}
          /\ t4U5v6

\* e9F1gH4: ShellExecuteW(runas) with whatever result, then sys.exit(0)
e9F1gH4(c, e, result) ==
  /\ calls' = [c EXCEPT !.runas = @ + 1]
  /\ env' = [e EXCEPT !.runas = result]
  /\ app' = "exited"
  /\ exitCode' = 0

\* q1R2s3: the main sequence, run by the zero-delay timer of __init__
q1R2s3 ==
  /\ Dispatching
  /\ "q1R2s3" \in timers
  /\ IF PlatformError(host) # ""
     THEN /\ o5P6q7(log_view, <<PlatformError(host)>>)
          /\ timers' = timers \ {"q1R2s3"}
          /\ UNCHANGED <<host, app, exitCode, status_label, progress, warningBoxes,
                         workerVars, procVars, calls, env>>
     ELSE \E answer \in AdminAnswers :
            LET c == [calls EXCEPT !.isAdmin = @ + 1]
                e == [env EXCEPT !.admin = answer]
            IN IF ~a7B2cD3(answer)
               THEN \E result \in RunasResults :
                      /\ e9F1gH4(c, e, result)
                      /\ log_view' = Append(log_view,
                                       Line("l2M3n4", <<"Requesting administrator privileges...">>))
                      /\ timers' = timers \ {"q1R2s3"}
                      /\ UNCHANGED <<host, loopExit, quitBy, status_label, progress,
                                     criticalBoxes, warningBoxes, workerVars, procVars>>
               ELSE \E which \in {"None", "C:/winget.exe"} :
                      /\ q1R2s3_probe(log_view, c, e, which)
                      /\ UNCHANGED <<host, exitVars, status_label, criticalBoxes,
                                     warningBoxes, dl, sigQ, procVars>>

\* ------------------------------------------------------ bootstrap worker
\* a connection made with Qt.DirectConnection: the slot runs where emit is called
SlotThread_direct(emitter, receiver) == emitter

\* connect() of lines 184-186 with its default, Qt.AutoConnection: the slot
\* runs in the thread the receiver lives in, directly when emit is called in
\* that thread, through the receiver's event queue otherwise
SlotThread(emitter, receiver) == receiver

\* the slots are bound methods of the window, which A7b8C9 creates in the UI
\* thread; every emit is made by w7X8y9, in the worker thread
SlotCtx == SlotThread("worker", "ui")

LogSig(text) == [sig |-> "log", text |-> text, ctx |-> SlotCtx]
ProgressSig(percent) == [sig |-> "progress", percent |-> percent, ctx |-> SlotCtx]
FinishedSig(success, message) ==
  [sig |-> "finished", success |-> success, message |-> message, ctx |-> SlotCtx]

\* the percentages, and the number of finished signals, among signals sigs
RECURSIVE PercentsOf(_)
PercentsOf(sigs) ==
  IF sigs = <<>> THEN <<>>
  ELSE (IF Head(sigs).sig = "progress" THEN <<Head(sigs).percent>> ELSE <<>>)
       \o PercentsOf(Tail(sigs))
NFinished(sigs) == Len(SelectSeq(sigs, LAMBDA g : g.sig = "finished"))

\* reporthook: the signals one call emits
reporthook(block_num, block_size, total_size) ==
  IF total_size > 0 THEN <<ProgressSig(Percent(block_num, block_size, total_size))>>
  ELSE <<>>

\* number of blocks urlretrieve reads for a body of n bytes
BlocksOf(n, bs) == (n + bs - 1) \div bs

\* w7X8y9 up to the first answer of the server: the download raises before
\* any data (HTTP error, no network), or urlretrieve gets the headers and
\* calls reporthook(0, bs, size); size is -1 without Content-Length
w7X8y9_open ==
  /\ worker = "start"
  /\ calls' = [calls EXCEPT !.download = @ + 1]
  /\ \/ /\ worker' = "done"
        /\ env' = [env EXCEPT !.download = "raised", !.nFinished = @ + 1]
        /\ sigQ' = sigQ \o <<LogSig(<<"Downloading msix package...">>),
                             FinishedSig(FALSE, <<"Error: ", "HTTP Error 404">>)>>
        /\ dl' = dl
     \/ \E total \in -1..MaxTotal, bs \in 1..MaxBlockSize, body \in 0..MaxTotal :
          /\ total >= 0 => body = total
          /\ worker' = "download"
          /\ env' = [env EXCEPT !.download = "running",
                                !.progEmitted = @ \o PercentsOf(reporthook(0, bs, total))]
          /\ dl' = [total |-> total, bs |-> bs, blocks |-> BlocksOf(body, bs), block_num |-> 0]
          /\ sigQ' = sigQ \o <<LogSig(<<"Downloading msix package...">>)>>
                          \o reporthook(0, bs, total)
  /\ UNCHANGED <<host, exitVars, timers, uiVars, procVars>>

\* urlretrieve reads one more block and calls reporthook
w7X8y9_block ==
  /\ worker = "download"
  /\ dl.block_num < dl.blocks
  /\ dl' = [dl EXCEPT !.block_num = @ + 1]
  /\ sigQ' = sigQ \o reporthook(dl.block_num + 1, dl.bs, dl.total)
  /\ env' = [env EXCEPT !.progEmitted =
                          @ \o PercentsOf(reporthook(dl.block_num + 1, dl.bs, dl.total))]
  /\ UNCHANGED <<host, exitVars, timers, uiVars, worker, procVars, calls>>

\* the transfer breaks off (connection lost, disk full): urlretrieve raises
w7X8y9_dlraise ==
  /\ worker = "download"
  /\ dl.block_num < dl.blocks
  /\ worker' = "done"
  /\ env' = [env EXCEPT !.download = "raised", !.nFinished = @ + 1]
  /\ sigQ' = Append(sigQ, FinishedSig(FALSE, <<"Error: ", "connection reset">>))
  /\ dl' = NoDl
  /\ UNCHANGED <<host, exitVars, timers, uiVars, procVars, calls>>

\* the download returned: two log lines, then subprocess.run(powershell ...)
w7X8y9_install ==
  /\ worker = "download"
  /\ dl.block_num = dl.blocks
  /\ worker' = "install"
  /\ calls' = [calls EXCEPT !.installer = @ + 1]
  /\ env' = [env EXCEPT !.download = "ok", !.installer = "running"]
  /\ sigQ' = sigQ \o <<LogSig(<<"Saved to msix_path">>),
                       LogSig(<<"Installing App Installer package (winget)...">>)>>
  /\ dl' = NoDl
  /\ UNCHANGED <<host, exitVars, timers, uiVars, procVars>>

\* the diagnostic taken from the error stream only
Diagnostic_stderr_only(stderr, stdout) == strip(stderr)

\* line 215: err = proc.stderr.strip() or proc.stdout.strip()
Diagnostic(stderr, stdout) ==
  IF strip(stderr) # <<>> THEN strip(stderr) ELSE strip(stdout)

\* w7X8y9 without the returncode test
w7X8y9_result_unchecked(returncode, stderr, stdout) ==
  <<LogSig(<<"Installation completed successfully.">>),
    FinishedSig(TRUE, <<"winget installed">>)>>

\* w7X8y9 without the return of line 217
w7X8y9_result_no_return(returncode, stderr, stdout) ==
  (IF returncode # 0
   THEN <<FinishedSig(FALSE, <<"Failed to install winget:\n">> \o Diagnostic(stderr, stdout))>>
   ELSE <<>>)
  \o <<LogSig(<<"Installation completed successfully.">>),
        FinishedSig(TRUE, <<"winget installed">>)>>

\* lines 214-220: what w7X8y9 emits once subprocess.run returned
w7X8y9_result(returncode, stderr, stdout) ==
  IF returncode # 0
  THEN <<FinishedSig(FALSE, <<"Failed to install winget:\n">> \o Diagnostic(stderr, stdout))>>
  ELSE <<LogSig(<<"Installation completed successfully.">>),
         FinishedSig(TRUE, <<"winget installed">>)>>

\* subprocess.run returns with an exit code and the captured streams
w7X8y9_installed ==
  /\ worker = "install"
  /\ \E returncode \in ExitCodes, stderr \in Captures, stdout \in Captures :
       /\ sigQ' = sigQ \o w7X8y9_result(returncode, stderr, stdout)
       /\ env' = [env EXCEPT !.installer = "exited", !.rc = returncode,
                             !.stderr = IF returncode # 0 THEN stderr ELSE <<>>,
                             !.stdout = IF returncode # 0 THEN stdout ELSE <<>>,
                             !.nFinished = @ + NFinished(w7X8y9_result(returncode, stderr, stdout))]
  /\ worker' = "done"
  /\ UNCHANGED <<host, exitVars, timers, uiVars, dl, procVars, calls>>

\* subprocess.run raises (powershell cannot be started): the except branch
w7X8y9_psraise ==
  /\ worker = "install"
  /\ sigQ' = Append(sigQ, FinishedSig(FALSE, <<"Error: ", "powershell not found">>))
  /\ env' = [env EXCEPT !.installer = "raised", !.nFinished = @ + 1]
  /\ worker' = "done"
  /\ UNCHANGED <<host, exitVars, timers, uiVars, dl, procVars, calls>>

\* ------------------------------------------- slots of the worker signals
\* l2M3n4, delivered for a queued log signal
l2M3n4 ==
  /\ Dispatching
  /\ sigQ # <<>> /\ Head(sigQ).sig = "log"
  /\ log_view' = Append(log_view, Line("l2M3n4", Head(sigQ).text))
  /\ sigQ' = Tail(sigQ)
  /\ env' = [env EXCEPT !.slotCtx = @ \cup {Head(sigQ).ctx}]
  /\ UNCHANGED <<host, exitVars, timers, status_label, progress, criticalBoxes,
                 warningBoxes, worker, dl, procVars, calls>>

\* r8S9t0, delivered for a queued progress signal
r8S9t0 ==
  /\ Dispatching
  /\ sigQ # <<>> /\ Head(sigQ).sig = "progress"
  /\ progress' = setValue(setMaximum(setVisible(progress, TRUE), 100), Head(sigQ).percent)
  /\ sigQ' = Tail(sigQ)
  /\ env' = [env EXCEPT !.slotCtx = @ \cup {Head(sigQ).ctx},
                        !.progHandled = Append(@, Head(sigQ).percent)]
  /\ UNCHANGED <<host, exitVars, timers, status_label, log_view, criticalBoxes,
                 warningBoxes, worker, dl, procVars, calls>>

\* z0A1b2, delivered for the queued finished signal
z0A1b2 ==
  /\ Dispatching
  /\ sigQ # <<>> /\ Head(sigQ).sig = "finished"
  /\ sigQ' = Tail(sigQ)
  /\ progress' = setMaximum(setVisible(progress, FALSE), 0)
  /\ env' = [env EXCEPT !.finished = TRUE, !.nZ0 = @ + 1,
                        !.nSched = IF Head(sigQ).success THEN @ + 1 ELSE @,
                        !.slotCtx = @ \cup {Head(sigQ).ctx},
                        !.progEmitted = <<>>, !.progHandled = <<>>]
  /\ IF Head(sigQ).success
     THEN /\ log_view' = Append(log_view,
                           Line("l2M3n4", <<"winget successfully installed, proceeding to update.">>))
          /\ timers' = timers \cup {"c3D4e5"}
          /\ UNCHANGED <<criticalBoxes, loopExit, quitBy>>
     ELSE /\ o5P6q7(log_view, <<"winget installation failed.\n">> \o Head(sigQ).message)
          /\ timers' = timers
  /\ UNCHANGED <<host, app, exitCode, status_label, warningBoxes, worker, dl,
                 procVars, calls>>

\* ------------------------------------------------------------ the upgrade
\* x4Y5z6 setting the status only
x4Y5z6_status_only(p) == p

\* x4Y5z6
x4Y5z6(p) == u1V2w3(setVisible(p, FALSE), TRUE)

\* c3D4e5, run by the timer q1R2s3 or z0A1b2 set: start winget and wait up to
\* 3 s for it; the wait ends with the process started, failed, or still starting
c3D4e5 ==
  /\ Dispatching
  /\ "c3D4e5" \in timers
  /\ timers' = timers \ {"c3D4e5"}
  /\ calls' = [calls EXCEPT !.start = @ + 1]
  /\ \E st \in StartResults :
       LET lg == Append(log_view, Line("c3D4e5", <<"\n--- Starting update of all packages ---">>))
           p == setVisible(setMaximum(u1V2w3(progress, FALSE), 0), TRUE)
       IN /\ env' = [env EXCEPT !.launch = st]
          /\ IF st = "started"
             THEN /\ proc' = "Running"
                  /\ log_view' = lg
                  /\ progress' = p
                  /\ status_label' = Status("Updating...", -1)
             ELSE /\ proc' = IF st = "timeout" THEN "Starting" ELSE "NotRunning"
                  /\ log_view' = Append(lg, Line("l2M3n4", <<"<b>Error:</b> Failed to start winget.">>))
                  /\ progress' = x4Y5z6(p)
                  /\ status_label' = Status("Launch error", -1)
  /\ UNCHANGED <<host, exitVars, criticalBoxes, warningBoxes, workerVars, pipe,
                 emitted, nChunks, procExit>>

\* a process that was still starting when the wait timed out starts after all
LateStart ==
  /\ app = "loop"
  /\ proc = "Starting"
  /\ proc' = "Running"
  /\ UNCHANGED <<host, exitVars, timers, uiVars, workerVars, pipe, emitted, nChunks, procExit,
                 calls, env>>

\* ... or fails to start: QProcess reports FailedToStart, finished is not emitted
LateFail ==
  /\ app = "loop"
  /\ proc = "Starting"
  /\ proc' = "NotRunning"
  /\ UNCHANGED <<host, exitVars, timers, uiVars, workerVars, pipe, emitted, nChunks, procExit,
                 calls, env>>

\* the child writes a chunk to its merged output
ChildEmit ==
  /\ app = "loop"
  /\ proc = "Running"
  /\ nChunks < MaxChunks
  /\ \E chunk \in Chunks :
       /\ pipe' = pipe \o chunk
       /\ emitted' = emitted \o chunk
       /\ nChunks' = nChunks + 1
  /\ UNCHANGED <<host, exitVars, timers, uiVars, workerVars, proc, procExit, calls, env>>

\* the child terminates; QProcess has not noticed yet
ChildExit ==
  /\ app = "loop"
  /\ proc = "Running"
  /\ proc' = "Exited"
  /\ UNCHANGED <<host, exitVars, timers, uiVars, workerVars, pipe, emitted, nChunks,
                 procExit, calls, env>>

\* a read of one byte in place of readAllStandardOutput
readAllStandardOutput_one(buf) ==
  IF buf = <<>> THEN [data |-> <<>>, rest |-> <<>>]
  ELSE [data |-> <<Head(buf)>>, rest |-> Tail(buf)]

\* QProcess.readAllStandardOutput: what is returned and what stays buffered
readAllStandardOutput(buf) == [data |-> buf, rest |-> <<>>]

\* f6G7h8 on a log lg, reading from the buffer buf: the log afterwards
f6G7h8_log(lg, buf) ==
  Append(lg, Line("f6G7h8", rstrip(Decode(readAllStandardOutput(buf).data))))

\* f6G7h8, run for readyReadStandardOutput
f6G7h8 ==
  /\ Dispatching
  /\ proc \in {"Running", "Exited"}
  /\ pipe # <<>>
  /\ log_view' = f6G7h8_log(log_view, pipe)
  /\ pipe' = readAllStandardOutput(pipe).rest
  /\ UNCHANGED <<host, exitVars, timers, status_label, progress, criticalBoxes,
                 warningBoxes, workerVars, proc, emitted, nChunks, procExit, calls, env>>

\* i9J0k1 on a log lg
i9J0k1(lg, exit_code, exit_status) ==
  /\ progress' = u1V2w3(setVisible(progress, FALSE), TRUE)
  /\ IF UpgradeOk(exit_code, exit_status)
     THEN /\ status_label' = Status("Update completed successfully", -1)
          /\ log_view' = Append(lg, Line("i9J0k1", <<"\n--- Update completed without errors ---">>))
          /\ warningBoxes' = warningBoxes
     ELSE /\ status_label' = Status("Update error", exit_code)
          /\ log_view' = Append(lg, Line("i9J0k1", <<"\n--- Finished with error (code=", ToString(exit_code), ") ---">>))
          /\ warningBoxes' = Append(warningBoxes, exit_code)

\* QProcess notices that the child died: it reads what is left in the pipe and
\* emits readyReadStandardOutput for it, then collects the exit code and
\* status and emits finished (both signals are connected in __init__ to slots
\* of the same thread, so both slots run here)
ProcessDied ==
  /\ Dispatching
  /\ proc = "Exited"
  /\ proc' = "NotRunning"
  /\ \E code \in ExitCodes, st \in ExitStatuses :
       /\ procExit' = [code |-> code, status |-> st]
       /\ IF pipe # <<>>
          THEN /\ pipe' = readAllStandardOutput(pipe).rest
               /\ i9J0k1(f6G7h8_log(log_view, pipe), code, st)
          ELSE /\ pipe' = pipe
               /\ i9J0k1(log_view, code, st)
  /\ UNCHANGED <<host, exitVars, timers, criticalBoxes, workerVars, emitted, nChunks,
                 calls, env>>

\* --------------------------------------------------------- end of the run
\* the run has shown an outcome of the upgrade step in the status label
UpgradeOutcomeShown ==
  status_label.text \in {"Launch error", "Update completed successfully", "Update error"}

\* the user closes the window once the outcome is shown: the last window
\* closed makes the event loop quit
CloseWindow ==
  /\ Dispatching
  /\ UpgradeOutcomeShown
  /\ loopExit' = 0
  /\ quitBy' = "close"
  /\ UNCHANGED <<host, app, exitCode, timers, uiVars, workerVars, procVars, calls, env>>

\* A7b8C9: sys.exit(app.exec_()) once the event loop returned
A7b8C9 ==
  /\ app = "loop"
  /\ loopExit # -1
  /\ app' = "exited"
  /\ exitCode' = loopExit
  /\ UNCHANGED <<host, loopExit, quitBy, timers, uiVars, workerVars, procVars, calls, env>>

Next ==
  \/ q1R2s3
  \/ w7X8y9_open
  \/ w7X8y9_block
  \/ w7X8y9_dlraise
  \/ w7X8y9_install
  \/ w7X8y9_installed
  \/ w7X8y9_psraise
  \/ l2M3n4
  \/ r8S9t0
  \/ z0A1b2
  \/ c3D4e5
  \/ LateStart
  \/ LateFail
  \/ ChildEmit
  \/ ChildExit
  \/ f6G7h8
  \/ ProcessDied
  \/ CloseWindow
  \/ A7b8C9

Spec == Init /\ [][Next]_vars

\* ================================================================ claims
\* the hosts the claims call supported: Windows, release 10 or 11
Supported == host.system = "Windows" /\ host.release \in {"10", "11"}
q1Done == "q1R2s3" \notin timers
UpgradeScheduled == "c3D4e5" \in timers \/ calls.start > 0
BootstrapOk == env.download = "ok" /\ env.installer = "exited" /\ env.rc = 0
FatalReported == Len(criticalBoxes) = 1 /\ quitBy = "o5P6q7" /\ loopExit = 0
NoExternalCall == calls = [isAdmin |-> 0, runas |-> 0, which |-> 0, download |-> 0,
                           installer |-> 0, start |-> 0]

\* C1: on a host that is not Windows 10/11 no elevation query, relaunch, tool
\* probe, download, installer or upgrade process is ever invoked, and once
\* q1R2s3 has run the fatal report is shown and the application was told to quit
C1_UnsupportedHostFails ==
  ~Supported =>
    /\ NoExternalCall
    /\ worker = "idle" /\ proc = "NotRunning" /\ "c3D4e5" \notin timers
    /\ q1Done => FatalReported

C1_Witness ==
  /\ host.system = "Windows" /\ host.release = "7"
  /\ app = "exited"
  /\ criticalBoxes = <<<<"Only Windows 10 and Windows 11 are supported.">>>>

\* C2: once the probe found the tool, the download and the installer are never
\* started and no worker thread exists; the upgrade is scheduled directly
C2_PresentSkipsBootstrap ==
  env.tool = "present" =>
    /\ calls.download = 0 /\ calls.installer = 0
    /\ worker = "idle" /\ sigQ = <<>> /\ ~env.finished
    /\ UpgradeScheduled

C2_Witness == env.tool = "present" /\ calls.start = 1 /\ proc = "Running"

\* C3: with the tool absent the upgrade is scheduled or started only after the
\* download returned and the installer exited with 0, and it is scheduled as
\* soon as z0A1b2 handled that success; after any other worker outcome z0A1b2
\* makes the fatal report and the upgrade is never scheduled or started; a run
\* that ended has started the upgrade exactly when the bootstrap succeeded
C3_UpgradeIffBootstrapOk ==
  env.tool = "absent" =>
    /\ UpgradeScheduled => BootstrapOk
    /\ (env.finished /\ BootstrapOk) => UpgradeScheduled
    /\ (env.finished /\ ~BootstrapOk) => (FatalReported /\ ~UpgradeScheduled)
    /\ app = "exited" => (calls.start = 1 <=> BootstrapOk)

C3_Witness ==
  /\ env.tool = "absent" /\ BootstrapOk
  /\ calls.start = 1 /\ proc = "Running"

\* C4: on a supported host a query that answers not-elevated or raises leads
\* to exactly one relaunch call and the end of this instance: no probe, no
\* worker, no upgrade timer, no upgrade process
C4_NotElevatedRelaunchesOnce ==
  (Supported /\ env.admin \in {"user", "raise"}) =>
    /\ calls.runas = 1
    /\ app = "exited"
    /\ calls.which = 0 /\ calls.download = 0 /\ calls.installer = 0 /\ calls.start = 0
    /\ worker = "idle" /\ "c3D4e5" \notin timers /\ proc = "NotRunning"

C4_Witness == env.admin = "raise" /\ calls.runas = 1 /\ app = "exited"

\* C5: once i9J0k1 handled the end of the upgrade process, the status is
\* 'Update completed successfully' with no warning exactly when the exit was
\* normal with code 0; otherwise status and warning both carry the exit code
UpgradeFinishedHandled == procExit.status # "none" /\ proc = "NotRunning"

C5_SuccessIffNormalZero ==
  UpgradeFinishedHandled =>
    IF procExit.status = "NormalExit" /\ procExit.code = 0
    THEN status_label = Status("Update completed successfully", -1) /\ warningBoxes = <<>>
    ELSE status_label = Status("Update error", procExit.code)
         /\ warningBoxes = <<procExit.code>>

C5_Witness ==
  /\ UpgradeFinishedHandled
  /\ procExit = [code |-> 0, status |-> "CrashExit"]
  /\ warningBoxes = <<0>>

\* outcome of a run as the window reports it
RunFailed ==
  criticalBoxes # <<>> \/ status_label.text \in {"Launch error", "Update error"}
RunSucceeded == status_label.text = "Update completed successfully"

\* C6 (as claimed): a run that ended Failed exits non-zero, one that completed
\* the upgrade exits 0
C6_ExitCodeTellsOutcome ==
  (app = "exited" /\ env.runas = "none") =>
    /\ RunFailed => exitCode # 0
    /\ RunSucceeded => exitCode = 0

\* C7 (as claimed): the relaunching instance exits non-zero when the elevation
\* request was rejected or failed, and 0 only when the relaunch was started
C7_RejectedRelaunchExitsNonZero ==
  (app = "exited" /\ env.runas # "none") =>
    (exitCode = 0 <=> env.runas = "started")

\* C8 (as claimed): every error of the run is reported through o5P6q7 and
\* makes the application quit
C8_EveryErrorIsFatal == RunFailed => (Len(criticalBoxes) = 1 /\ quitBy = "o5P6q7")

\* C8 (amended): errors before the upgrade step are reported through o5P6q7
\* and make the application quit; a launch failure and a bad exit of the
\* upgrade are shown in status, log and warning only, without o5P6q7, and the
\* application quits only when the user closes the window
PreUpgradeError == (~Supported /\ q1Done) \/ (env.finished /\ ~BootstrapOk)
UpgradeError == status_label.text \in {"Launch error", "Update error"}

C8_FatalOnlyBeforeUpgrade ==
  /\ PreUpgradeError => FatalReported
  /\ UpgradeError => (criticalBoxes = <<>> /\ quitBy # "o5P6q7")
  /\ status_label.text = "Update error" => warningBoxes = <<status_label.code>>
  /\ status_label.text = "Launch error" =>
       \E i \in 1..Len(log_view) :
         log_view[i] = Line("l2M3n4", <<"<b>Error:</b> Failed to start winget.">>)
  /\ criticalBoxes # <<>> => PreUpgradeError

C8_Witness ==
  /\ env.launch = "failed" /\ status_label.text = "Launch error"
  /\ app = "loop" /\ loopExit = -1

\* the log entries f6G7h8 appended, and everything between the first and last
OutEntries == SelectSeq(log_view, LAMBDA e : e.src = "f6G7h8")
RECURSIVE Texts(_)
Texts(es) == IF es = <<>> THEN <<>> ELSE <<Head(es).text>> \o Texts(Tail(es))
OutPositions == {i \in 1..Len(log_view) : log_view[i].src = "f6G7h8"}
EmittedBytes == emitted

\* C9 (as claimed): whenever everything the child wrote has been read, the
\* texts f6G7h8 appended, concatenated, are exactly the emitted text, and no
\* other log entry lies between two of them
C9_LogReproducesOutput ==
  pipe = <<>> =>
    /\ Flatten(Texts(OutEntries)) = Decode(EmittedBytes)
    /\ \A i, j \in OutPositions, k \in 1..Len(log_view) :
         (i < k /\ k < j) => k \in OutPositions

\* texts is what successive reads of stream give: each text is the decoded,
\* right-stripped content of the next non-empty segment of the stream
RECURSIVE ReadsOf(_, _)
ReadsOf(texts, stream) ==
  IF texts = <<>> THEN stream = <<>>
  ELSE \E n \in 1..Len(stream) :
         /\ Head(texts) = rstrip(Decode(SubSeq(stream, 1, n)))
         /\ ReadsOf(Tail(texts), SubSeq(stream, n + 1, Len(stream)))

TerminalPositions == {i \in 1..Len(log_view) : log_view[i].src = "i9J0k1"}

\* C10: the entries f6G7h8 appended are successive reads of the emitted bytes
\* in emission order (what is not read yet is the tail still in the pipe);
\* the terminal line of i9J0k1 is appended once, after every output entry,
\* when nothing is left unread, and no output follows it
C10_OutputBeforeTerminal ==
  /\ Len(pipe) <= Len(EmittedBytes)
  /\ pipe = SubSeq(EmittedBytes, Len(EmittedBytes) - Len(pipe) + 1, Len(EmittedBytes))
  /\ ReadsOf(Texts(OutEntries), SubSeq(EmittedBytes, 1, Len(EmittedBytes) - Len(pipe)))
  /\ Cardinality(TerminalPositions) <= 1
  /\ TerminalPositions # {} =>
       /\ pipe = <<>>
       /\ proc = "NotRunning"
       /\ \A t \in TerminalPositions, i \in OutPositions : i < t
       /\ status_label.text \in {"Update completed successfully", "Update error"}

C10_Witness ==
  /\ TerminalPositions # {}
  /\ nChunks >= 2
  /\ Len(OutEntries) = 2
  /\ log_view[Len(log_view) - 1].src = "f6G7h8"

\* ------------------------------------------------------------ C11 .. C19
NonDecreasing(seq) == \A i \in 1..(Len(seq) - 1) : seq[i] <= seq[i + 1]

\* C11: the percentages the report hook emits during one download never
\* decrease, and r8S9t0 handles them in the order of emission: what was
\* handled, followed by what is still queued, is what was emitted
C11_ProgressMonotoneInOrder ==
  /\ NonDecreasing(env.progEmitted)
  /\ env.progEmitted = env.progHandled \o PercentsOf(sigQ)

C11_Witness ==
  /\ Len(env.progHandled) >= 3
  /\ env.progHandled[1] < env.progHandled[2]
  /\ env.progHandled[2] < env.progHandled[3]

\* C12 (as claimed): every percentage the report hook emits lies in 0..100,
\* and none is emitted while the total size is unknown
C12_PercentWithinRange ==
  /\ \A i \in 1..Len(env.progEmitted) : env.progEmitted[i] \in 0..100
  /\ (worker = "download" /\ dl.total <= 0) => env.progEmitted = <<>>

\* the fatal report z0A1b2 makes for a failed installer with diagnostic diag
InstallReport(diag) ==
  <<"winget installation failed.\n", "Failed to install winget:\n">> \o diag
InstallFailureReported == env.installer = "exited" /\ env.rc # 0 /\ env.finished
HasText(s) == \E i \in 1..Len(s) : s[i] # "w"

\* C13 (as claimed): the report of a failed installer carries the captured
\* error text if that is non-empty, otherwise the captured standard output,
\* and is non-empty whenever either stream captured anything
C13_StderrElseStdout ==
  InstallFailureReported =>
    /\ criticalBoxes =
         <<InstallReport(IF env.stderr # <<>> THEN env.stderr ELSE env.stdout)>>
    /\ (env.stderr # <<>> \/ env.stdout # <<>>) =>
         criticalBoxes # <<InstallReport(<<>>)>>

\* C13 (amended): the report carries the captured error text without its
\* leading and trailing whitespace if that leaves anything, otherwise the
\* captured standard output without its leading and trailing whitespace, and
\* is non-empty whenever either stream has a character that is not whitespace
C13_StrippedStderrElseStdout ==
  InstallFailureReported =>
    /\ criticalBoxes =
         <<InstallReport(IF HasText(env.stderr) THEN lstrip(rstrip(env.stderr))
                         ELSE lstrip(rstrip(env.stdout)))>>
    /\ (HasText(env.stderr) \/ HasText(env.stdout)) =>
         criticalBoxes # <<InstallReport(<<>>)>>

C13_Witness ==
  /\ InstallFailureReported
  /\ env.stderr = <<"w">> /\ env.stdout = <<"a">>
  /\ criticalBoxes = <<InstallReport(<<"a">>)>>

\* C14 (as claimed): no step of the sequence is taken twice, and once the
\* run has reported Failed or Succeeded no later event changes what is
\* reported or takes another step
C14_OutcomeIsFinal ==
  [][/\ \A f \in DOMAIN calls : calls'[f] <= 1
     /\ (RunFailed \/ RunSucceeded) =>
          /\ status_label' = status_label
          /\ criticalBoxes' = criticalBoxes
          /\ warningBoxes' = warningBoxes
          /\ calls' = calls]_vars

LaunchErrorLogged ==
  \E i \in 1..Len(log_view) :
    log_view[i] = Line("l2M3n4", <<"<b>Error:</b> Failed to start winget.">>)

\* C16 (as claimed): when the startup wait ends without a started process,
\* the error line is logged, the progress indicator is hidden and the run
\* never afterwards shows the upgrade as succeeded
C16_LaunchFailureStays ==
  env.launch \in {"failed", "timeout"} =>
    /\ LaunchErrorLogged
    /\ ~progress.visible
    /\ status_label.text # "Update completed successfully"

\* C17 (as claimed): after a bootstrap the upgrade is scheduled or started
\* only after a second tool probe
C17_ReprobeBeforeUpgrade ==
  (env.tool = "absent" /\ UpgradeScheduled) => calls.which >= 2

\* C18: the worker has emitted finished exactly once when it is done and not
\* before; finished is the last signal it queues; z0A1b2 runs at most once
\* and the upgrade is armed and started at most once
C18_FinishedExactlyOnce ==
  /\ env.nFinished = IF worker = "done" THEN 1 ELSE 0
  /\ \A i \in 1..(Len(sigQ) - 1) : sigQ[i].sig # "finished"
  /\ NFinished(sigQ) + env.nZ0 = env.nFinished
  /\ env.nZ0 = 1 => sigQ = <<>>
  /\ env.nSched <= 1
  /\ calls.start <= 1

C18_Witness ==
  /\ env.nZ0 = 1 /\ env.nFinished = 1
  /\ env.rc = 1
  /\ sigQ = <<>>

\* a download/install worker or the upgrade process is in flight
InFlight ==
  \/ worker \in {"start", "download", "install"}
  \/ sigQ # <<>>
  \/ proc \in {"Running", "Exited"}

\* C19: with an outcome reported the progress indicator is hidden; it is
\* visible only while a worker or the upgrade process is in flight; no
\* progress signal is left once z0A1b2 has run
C19_ProgressHiddenAtOutcome ==
  /\ (RunFailed \/ RunSucceeded) => ~progress.visible
  /\ progress.visible => InFlight
  /\ env.nZ0 > 0 => PercentsOf(sigQ) = <<>>

C19_Witness ==
  /\ env.launch = "timeout" /\ proc = "Running"
  /\ status_label.text = "Launch error"
  /\ ~progress.visible
====
